---- MODULE Spec2Model ----
(***************************************************************************)
(* The scan engine of src/app/api/scan/route.ts: the POST handler that     *)
(* validates a scan request, expands its endpoints into probe tasks, runs  *)
(* them through runWithConcurrency and answers with the findings.          *)
(*                                                                         *)
(* JavaScript runs every handler to completion: a step of the model is     *)
(* one run of synchronous code, from the event that resumes it (the        *)
(* request arriving, a fetch settling, a body read settling, a timer       *)
(* firing) to the next await.  The target server and the network are the   *)
(* environment: what they answer, and when, is a nondeterministic choice.  *)
(*                                                                         *)
(* Numbers the code keeps as floating point (scores, similarity) are       *)
(* exact rationals <<numerator, denominator>> here.                        *)
(***************************************************************************)
EXTENDS Integers, Sequences, FiniteSets, TLC

\* ------------------------------------------------------------------ bounds
MaxEndpoints == 2
MaxJobs == 4
MaxWorkers == 3

\* --------------------------------------------------------------- rationals
Abs(x) == IF x < 0 THEN -x ELSE x

RECURSIVE Gcd(_, _)
Gcd(a, b) == IF b = 0 THEN a ELSE Gcd(b, a % b)

Reduce(n, d, g) == <<n \div g, d \div g>>
Rat(n, d) == IF n = 0 THEN <<0, 1>> ELSE Reduce(n, d, Gcd(Abs(n), d))

RAdd(x, y) == Rat(x[1] * y[2] + y[1] * x[2], x[2] * y[2])
RSub(x, y) == Rat(x[1] * y[2] - y[1] * x[2], x[2] * y[2])
RMul(x, y) == Rat(x[1] * y[1], x[2] * y[2])
RLeq(x, y) == x[1] * y[2] <= y[1] * x[2]
RMin(x, y) == IF RLeq(x, y) THEN x ELSE y
RMax(x, y) == IF RLeq(x, y) THEN y ELSE x

\* Number(x.toFixed(3)), in thousandths
toFixed3(x) == (2000 * x[1] + x[2]) \div (2 * x[2])

\* x.toFixed(1), in tenths
toFixed1(x) == (20 * x[1] + x[2]) \div (2 * x[2])

Min(a, b) == IF a <= b THEN a ELSE b
Max(a, b) == IF a <= b THEN b ELSE a

\* ------------------------------------------------------------------- texts
\* A string is the sequence of its characters.
LowerCase == << "a", "b", "c", "d", "e", "f", "g", "h", "i", "j", "k", "l", "m",
                "n", "o", "p", "q", "r", "s", "t", "u", "v", "w", "x", "y", "z" >>
UpperCase == << "A", "B", "C", "D", "E", "F", "G", "H", "I", "J", "K", "L", "M",
                "N", "O", "P", "Q", "R", "S", "T", "U", "V", "W", "X", "Y", "Z" >>
Digits == { "0", "1", "2", "3", "4", "5", "6", "7", "8", "9" }
Lowers == { LowerCase[i] : i \in 1..26 }
Uppers == { UpperCase[i] : i \in 1..26 }
HexLetters == { "a", "b", "c", "d", "e", "f", "A", "B", "C", "D", "E", "F" }
WhiteSpace == { " ", "\t", "\n", "\r" }

\* String.prototype.toLowerCase, one character
toLowerCase(c) ==
    IF c \in Uppers THEN LowerCase[CHOOSE i \in 1..26 : UpperCase[i] = c] ELSE c

lowerText(t) == [i \in 1..Len(t) |-> toLowerCase(t[i])]

\* the regex class \w
WordChars == Lowers \cup Uppers \cup Digits \cup { "_" }

\* the class [a-z0-9_\-] of tokenSet, applied to lower-cased text
TokenChars == Lowers \cup Digits \cup { "_", "-" }

\* t.slice(i - 1, j), 1-based and inclusive
Slice(t, i, j) == IF j < i THEN << >> ELSE SubSeq(t, i, j)

\* t.startsWith(p, i - 1)
MatchAt(t, p, i) == i + Len(p) - 1 <= Len(t) /\ SubSeq(t, i, i + Len(p) - 1) = p

\* t.includes(p)
includes(t, p) == \E i \in 1..(Len(t) + 1) : MatchAt(t, p, i)

\* the end of the longest run of characters of the class S that starts at i
\* (i - 1 when the run is empty): a greedy S* of a regex
RECURSIVE RunEnd(_, _, _)
RunEnd(t, i, S) ==
    IF i <= Len(t) /\ t[i] \in S THEN RunEnd(t, i + 1, S) ELSE i - 1
\* the text of a string literal
Chars(str) ==
    CASE str = "<num>"     -> << "<", "n", "u", "m", ">" >>
      [] str = "<uuid>"    -> << "<", "u", "u", "i", "d", ">" >>
      [] str = "\":\"<ts>\"" -> << "\"", ":", "\"", "<", "t", "s", ">", "\"" >>
      [] str = "\"id\""    -> << "\"", "i", "d", "\"" >>
      [] str = "created"   -> << "c", "r", "e", "a", "t", "e", "d" >>
      [] str = "updated"   -> << "u", "p", "d", "a", "t", "e", "d" >>
      [] str = "timestamp" -> << "t", "i", "m", "e", "s", "t", "a", "m", "p" >>
      [] str = "ts"        -> << "t", "s" >>
      [] str = "date"      -> << "d", "a", "t", "e" >>

\* ---------------------------------------------------------- redactVolatile
\* \b before position i, where t[i] is a word character
BoundaryBefore(t, i) == i = 1 \/ t[i - 1] \notin WordChars
\* \b after position e, where t[e] is a word character
BoundaryAfter(t, e) == e = Len(t) \/ t[e + 1] \notin WordChars

\* .replace(/\b\d{13,}\b/g, "<num>"), from position i on
\* whether the digits t[i..e] are a match of /\b\d{13,}\b/
NumAt(t, i, e) ==
    /\ t[i] \in Digits
    /\ BoundaryBefore(t, i)
    /\ e - i + 1 >= 13
    /\ BoundaryAfter(t, e)

RECURSIVE redactNum(_, _)
redactNum(t, i) ==
    IF i > Len(t) THEN << >>
    ELSE IF NumAt(t, i, RunEnd(t, i, Digits))
         THEN Chars("<num>") \o redactNum(t, RunEnd(t, i, Digits) + 1)
         ELSE << t[i] >> \o redactNum(t, i + 1)

\* the character classes of the UUID pattern, position by position
\* (the i flag admits both cases)
HexChars == Digits \cup HexLetters
UuidClass(k) ==
    CASE k \in { 9, 14, 19, 24 } -> { "-" }
      [] k = 15 -> { "1", "2", "3", "4", "5" }
      [] k = 20 -> { "8", "9", "a", "b", "A", "B" }
      [] OTHER -> HexChars
UuidLen == 36

UuidAt(t, i) ==
    /\ i + UuidLen - 1 <= Len(t)
    /\ \A k \in 1..UuidLen : t[i + k - 1] \in UuidClass(k)
    /\ BoundaryBefore(t, i)
    /\ BoundaryAfter(t, i + UuidLen - 1)

\* .replace(/\b[0-9a-f]{8}-...-[0-9a-f]{12}\b/gi, "<uuid>"), from position i on
RECURSIVE redactUuid(_, _)
redactUuid(t, i) ==
    IF i > Len(t) THEN << >>
    ELSE IF UuidAt(t, i)
         THEN Chars("<uuid>") \o redactUuid(t, i + UuidLen)
         ELSE << t[i] >> \o redactUuid(t, i + 1)

TsKeys == { Chars("created"), Chars("updated"), Chars("timestamp"),
            Chars("ts"), Chars("date") }

\* The end of a match of /"(key)"\s*:\s*"[^"]+"/i that starts at i with the
\* key k, or 0 when there is none.
\* t[p] is the character c
IsAt(t, p, c) == p >= 1 /\ p <= Len(t) /\ t[p] = c
NotQuote(t) == { t[x] : x \in 1..Len(t) } \ { "\"" }

\* "[^"]+" from the opening quote v on: the closing quote, or 0
TsValueEnd(t, v, e) == IF IsAt(t, v, "\"") /\ e > v + 1 /\ IsAt(t, e, "\"") THEN e ELSE 0
\* \s*"[^"]+" after the colon c
TsAfterColon(t, c, v) ==
    IF IsAt(t, c, ":") THEN TsValueEnd(t, v, RunEnd(t, v + 1, NotQuote(t)) + 1) ELSE 0
\* "\s*:... after the quote q that closes the key
TsAfterKey(t, q, c) ==
    IF IsAt(t, q, "\"") THEN TsAfterColon(t, c, RunEnd(t, c + 1, WhiteSpace) + 1) ELSE 0
TsMatchEnd(t, i, k) ==
    IF t[i] = "\"" /\ MatchAt(lowerText(t), k, i + 1)
    THEN TsAfterKey(t, i + Len(k) + 1, RunEnd(t, i + Len(k) + 2, WhiteSpace) + 1)
    ELSE 0

\* .replace(/"(created|updated|timestamp|ts|date)"\s*:\s*"[^"]+"/gi,
\*          '"$1":"<ts>"'), from position i on
TsHits(t, i) == { k \in TsKeys : TsMatchEnd(t, i, k) > 0 }

RECURSIVE redactTs(_, _)
\* the rest of the text after a match with the key k at i
redactTsAt(t, i, k) ==
    << "\"" >> \o SubSeq(t, i + 1, i + Len(k))
        \o Chars("\":\"<ts>\"") \o redactTs(t, TsMatchEnd(t, i, k) + 1)
redactTs(t, i) ==
    IF i > Len(t) THEN << >>
    ELSE IF TsHits(t, i) = { }
         THEN << t[i] >> \o redactTs(t, i + 1)
         ELSE redactTsAt(t, i, CHOOSE x \in TsHits(t, i) : TRUE)

redactVolatile(text) == redactTs(redactUuid(redactNum(text, 1), 1), 1)

\* ----------------------------------------------------------------- tokenSet
\* The tokens of lower-cased text from position i on: the maximal runs of
\* [a-z0-9_-] (everything else becomes a blank, and blanks split).
RECURSIVE tokensFrom(_, _)
\* the token t[i..e] and those after it
tokenAt(t, i, e) == { SubSeq(t, i, e) } \cup tokensFrom(t, e + 1)
tokensFrom(t, i) ==
    IF i > Len(t) THEN { }
    ELSE IF t[i] \in TokenChars
         THEN tokenAt(t, i, RunEnd(t, i, TokenChars))
         ELSE tokensFrom(t, i + 1)

tokenSet(text) == tokensFrom(lowerText(text), 1)

\* inter.size / uni.size, or 0 for an empty union
jaccard(a, b) ==
    IF a \cup b = { } THEN Rat(0, 1)
    ELSE Rat(Cardinality(a \cap b), Cardinality(a \cup b))

\* ------------------------------------------------------------- levenshtein
\* One row of the edit-distance table: prev is the row of the prefix before
\* character c, acc the part of the new row already computed.
\* the cell after j cells of the new row
levCell(prev, c, b, acc, j) ==
    Min(Min(prev[j + 1] + 1, acc[j] + 1), prev[j] + (IF c = b[j] THEN 0 ELSE 1))

RECURSIVE levRow(_, _, _, _)
levRow(prev, c, b, acc) ==
    IF Len(acc) = Len(b) + 1 THEN acc
    ELSE levRow(prev, c, b, Append(acc, levCell(prev, c, b, acc, Len(acc))))

RECURSIVE levRows(_, _, _, _)
levRows(a, b, i, prev) ==
    IF i > Len(a) THEN prev[Len(b) + 1]
    ELSE levRows(a, b, i + 1, levRow(prev, a[i], b, << prev[1] + 1 >>))

levenshteinDistance(a, b) == levRows(a, b, 1, [j \in 1..(Len(b) + 1) |-> j - 1])

\* --------------------------------------------------------------- similarity
\* lines 79-83, on the redacted texts
blend(a, b) ==
    RAdd(RMul(jaccard(tokenSet(a), tokenSet(b)), Rat(6, 10)),
         RMul(RSub(Rat(1, 1),
                   RMin(Rat(1, 1),
                        Rat(levenshteinDistance(a, b), Max(Max(Len(a), Len(b)), 1)))),
              Rat(4, 10)))

similarity(aRaw, bRaw) == blend(redactVolatile(aRaw), redactVolatile(bRaw))
\* ------------------------------------------------------------------ bodies
\* A response body is its text together with what JSON.parse makes of it:
\* json is JSON.stringify(JSON.parse(text)) when the text parses.
Body(text, parses, json) == [text |-> text, parses |-> parses, json |-> json]

EmptyText == Body(<< >>, FALSE, << >>)
\* {"id":1001}
UserText == LET t == << "{", "\"", "i", "d", "\"", ":", "1", "0", "0", "1", "}" >>
            IN  Body(t, TRUE, t)
\* denied
DeniedText == Body(<< "d", "e", "n", "i", "e", "d" >>, FALSE, << >>)

\* s.match(/"id"\s*:\s*"?(\w+)"?/i)?.[1] tried at position i only:
\* the captured group, or << >> when the pattern does not match there
\* (\w+) from position b on
idCapture(s, b) == Slice(s, b, RunEnd(s, b, WordChars))
\* "?(\w+) from position q on
idValue(s, q) == idCapture(s, IF IsAt(s, q, "\"") THEN q + 1 ELSE q)
\* :\s*"?(\w+) from position c on
idAfterKey(s, c) ==
    IF IsAt(s, c, ":") THEN idValue(s, RunEnd(s, c + 1, WhiteSpace) + 1) ELSE << >>
idMatchAt(s, i) ==
    IF MatchAt(lowerText(s), Chars("\"id\""), i)
    THEN idAfterKey(s, RunEnd(s, i + 4, WhiteSpace) + 1)
    ELSE << >>

idHits(s) == { i \in 1..Len(s) : idMatchAt(s, i) # << >> }
\* the least element of a non-empty set of positions
First(S) == CHOOSE i \in S : \A k \in S : i <= k

\* the first match from the left; << >> stands for undefined
idMatch(s) == IF idHits(s) = { } THEN << >> ELSE idMatchAt(s, First(idHits(s)))

is2xx(status) == status >= 200 /\ status < 300

AttackerVector == "Attacker requests victim's resource via URL id"
UnauthVector == "Unauthenticated requests victim's resource"

\* `${label}: ${(sim * 100).toFixed(1)}%`: the label and the tenths of a percent
simEvidence(label, sim) == << label, toFixed1(RMul(sim, Rat(100, 1))) >>

\* mutant: the success branch without its 0.6
baseScoreSimilarityOnly(attackerStatus, sim) ==
    IF is2xx(attackerStatus)
    THEN [score |-> RMin(Rat(4, 10), RMul(sim, Rat(4, 10))),
          evid |-> << simEvidence("Similarity victim?attacker", sim) >>]
    ELSE [score |-> Rat(0, 1), evid |-> << >>]

\* the base score of the attacker probe (lines 165-171): score and evidence
baseScore(attackerStatus, sim) ==
    IF is2xx(attackerStatus)
    THEN [score |-> RAdd(Rat(6, 10), RMin(Rat(4, 10), RMul(sim, Rat(4, 10)))),
          evid |-> << simEvidence("Similarity victim?attacker", sim) >>]
    ELSE IF attackerStatus = 401 \/ attackerStatus = 403
         THEN [score |-> Rat(5, 100), evid |-> << >>]
         ELSE [score |-> Rat(0, 1), evid |-> << >>]

\* the ID-consistency refinement (lines 174-187) of a score s
\* lines 179-182: the attacker sees their own id
ownId(s, vIdStr, aIdStr, attackerId) ==
    IF vIdStr # << >> /\ aIdStr # << >> /\ vIdStr = attackerId
    THEN [s EXCEPT !.score = RSub(@, Rat(1, 10))] ELSE s

\* mutant: the victim's id in the attacker's response is worth 0.5
leakedIdHalf(s, vIdStr, atkJson) ==
    IF vIdStr # << >> /\ includes(atkJson, vIdStr)
    THEN [score |-> RAdd(s.score, Rat(1, 2)),
          evid |-> Append(s.evid, "Victim id present in attacker response")]
    ELSE s

\* lines 183-186: the victim's id shows in the attacker's response
leakedId(s, vIdStr, atkJson) ==
    IF vIdStr # << >> /\ includes(atkJson, vIdStr)
    THEN [score |-> RAdd(s.score, Rat(15, 100)),
          evid |-> Append(s.evid, "Victim id present in attacker response")]
    ELSE s

\* the ID-consistency refinement (lines 174-187) of a score s
idConsistency(s, baselineText, attackerText, attackerId) ==
    IF ~(baselineText.parses /\ attackerText.parses) THEN s
    ELSE leakedId(ownId(s, idMatch(baselineText.json), idMatch(attackerText.json),
                        attackerId),
                  idMatch(baselineText.json), attackerText.json)

\* line 190: score = Math.max(0, Math.min(1, score))
clamp(s) == [s EXCEPT !.score = RMax(Rat(0, 1), RMin(Rat(1, 1), @))]

\* lines 159-190: the attacker-vector score, clamped to [0, 1], and its evidence
attackerScore(baselineStatus, baselineText, attackerStatus, attackerText, attackerId) ==
    clamp(IF is2xx(baselineStatus)
          THEN idConsistency(
                   baseScore(attackerStatus,
                             similarity(baselineText.text, attackerText.text)),
                   baselineText, attackerText, attackerId)
          ELSE [score |-> Rat(0, 1), evid |-> << >>])

\* line 212: the unauthenticated-vector score
unauthScore(baselineText, textUnauth) ==
    RAdd(Rat(65, 100),
         RMin(Rat(35, 100), RMul(similarity(baselineText.text, textUnauth.text), Rat(35, 100))))

\* mutant: score <= cfg.speedGateThreshold
gateBelow(score, threshold) == RLeq(score, threshold)

\* score >= cfg.speedGateThreshold
gate(score, threshold) == RLeq(threshold, score)

\* a finding (the random id is left out)
Finding(e, vector, statusVictim, statusAttacker, score, evid) ==
    [endpoint |-> e, attackVector |-> vector, statusVictim |-> statusVictim,
     statusAttacker |-> statusAttacker, confidence |-> toFixed3(score),
     evidence |-> evid]
\* ---------------------------------------------------------- applyTemplate
\* input.replace(/\{(\w+)\}/g, (_, k) => vars[k] ?? `{${k}}`), from position
\* i on, for the one variable the handler passes: name |-> value
RECURSIVE applyTemplate(_, _, _, _)
\* input[i] is "{" and e the end of the word after it
templateAt(input, name, value, i, e) ==
    IF e >= i + 1 /\ e < Len(input) /\ input[e + 1] = "}"
    THEN (IF SubSeq(input, i + 1, e) = name THEN value ELSE SubSeq(input, i, e + 1))
             \o applyTemplate(input, name, value, e + 2)
    ELSE << input[i] >> \o applyTemplate(input, name, value, i + 1)
applyTemplate(input, name, value, i) ==
    IF i > Len(input) THEN << >>
    ELSE IF input[i] = "{"
         THEN templateAt(input, name, value, i, RunEnd(input, i + 1, WordChars))
         ELSE << input[i] >> \o applyTemplate(input, name, value, i + 1)

\* ----------------------------------------------------------------- buildUrl
\* baseUrl.replace(/\/$/, "") + "/" + pathTmpl.replace(/^\//, "")
joinUrl(baseUrl, pathTmpl) ==
    LET b == IF Len(baseUrl) > 0 /\ baseUrl[Len(baseUrl)] = "/"
             THEN SubSeq(baseUrl, 1, Len(baseUrl) - 1) ELSE baseUrl
        q == IF Len(pathTmpl) > 0 /\ pathTmpl[1] = "/"
             THEN SubSeq(pathTmpl, 2, Len(pathTmpl)) ELSE pathTmpl
    IN  b \o << "/" >> \o q

\* Whether new URL(s) succeeds, for the absolute URLs of this model: s needs
\* a scheme; after "scheme://" the host runs to the next "/", "?" or "#", must
\* hold no blank, and must not be empty for http and https.
SpecialSchemes == { << "h", "t", "t", "p" >>, << "h", "t", "t", "p", "s" >> }
HostChars(s) == { s[x] : x \in 1..Len(s) } \ { "/", "?", "#" }
HostOk(scheme, host) ==
    /\ \A x \in 1..Len(host) : host[x] # " "
    /\ (scheme \in SpecialSchemes => host # << >>)
\* e is the end of the scheme
UrlAfterScheme(s, e) ==
    /\ e >= 1 /\ e < Len(s) /\ s[e + 1] = ":"
    /\ IF MatchAt(s, << "/", "/" >>, e + 2)
       THEN HostOk(SubSeq(s, 1, e), Slice(s, e + 4, RunEnd(s, e + 4, HostChars(s))))
       ELSE SubSeq(s, 1, e) \notin SpecialSchemes
UrlParses(s) == UrlAfterScheme(s, RunEnd(s, 1, Lowers \cup Uppers))

\* new URL(s).toString(), or "throws" (new URL's TypeError)
newUrl(s) ==
    IF UrlParses(s) THEN [throws |-> FALSE, url |-> s]
    ELSE [throws |-> TRUE, url |-> << >>]

\* buildUrl(baseUrl, pathTmpl, {})
buildUrl(baseUrl, pathTmpl) == newUrl(joinUrl(baseUrl, pathTmpl))

\* ---------------------------------------------------------------- requests
VictimSample == << "1", "0", "0", "1" >>
AttackerSample == << "1", "0", "0", "2" >>
IdName == << "i", "d" >>

PathParam(samples) == [name |-> IdName, samples |-> samples]
Endpoint(pathTemplate, pathParams) ==
    [method |-> "GET", pathTemplate |-> pathTemplate, pathParams |-> pathParams]

\* /users/{id}, with a victim and an attacker sample
UsersById == Endpoint(<< "/", "u", "s", "e", "r", "s", "/", "{", "i", "d", "}" >>, << PathParam(<< VictimSample, AttackerSample >>) >>)
\* /health: no path parameter
Health == Endpoint(<< "/", "h", "e", "a", "l", "t", "h" >>, << >>)
\* //a b/{id}: under the base URL app: this joins to app://a b/1001
BadHost == Endpoint(<< "/", "/", "a", " ", "b", "/", "{", "i", "d", "}" >>, << PathParam(<< VictimSample, AttackerSample >>) >>)
\* a path parameter without samples (the schema rejects it)
NoSamples == Endpoint(<< "/", "u", "s", "e", "r", "s", "/", "{", "i", "d", "}" >>, << PathParam(<< >>) >>)

HttpBase == << "h", "t", "t", "p", "s", ":", "/", "/", "t", "a", "r", "g", "e", "t", ".", "t", "l", "d", "/", "a", "p", "i" >>
AppBase == << "a", "p", "p", ":" >>
\* target.tld: no scheme
NotAUrl == << "t", "a", "r", "g", "e", "t", ".", "t", "l", "d" >>

Request(baseUrl, endpoints, unauthenticated, speedGateThreshold, maxConcurrency, timeoutMs) ==
    [baseUrl |-> baseUrl, endpoints |-> endpoints,
     authContexts |-> [unauthenticated |-> unauthenticated],
     speedGateThreshold |-> speedGateThreshold,
     maxConcurrency |-> maxConcurrency, timeoutMs |-> timeoutMs]

\* the sequences over S of lengths 1..n
SeqsUpTo(S, n) == UNION { [1..k -> S] : k \in 1..n }

Thresholds == { Rat(8, 10) }
Concurrencies == { Rat(1, 1), Rat(2, 1), Rat(3, 2) }

\* Requests the schema accepts. A path that cannot be joined to a valid URL
\* needs a base URL without an authority: such requests use app:.
ValidRequests ==
    { Request(IF \E i \in DOMAIN eps : eps[i] = BadHost THEN AppBase ELSE HttpBase,
              eps, u, th, mc, Rat(8000, 1)) :
        eps \in SeqsUpTo({ UsersById, Health, BadHost }, MaxEndpoints),
        u \in BOOLEAN, th \in Thresholds, mc \in Concurrencies }

\* Requests the schema rejects, one or two fields wrong.
InvalidRequests ==
    { Request(NotAUrl, << UsersById >>, TRUE, Rat(8, 10), Rat(2, 1), Rat(8000, 1)),
      Request(HttpBase, << >>, TRUE, Rat(8, 10), Rat(2, 1), Rat(8000, 1)),
      Request(HttpBase, << UsersById, NoSamples >>, TRUE, Rat(8, 10), Rat(2, 1), Rat(8000, 1)),
      Request(HttpBase, << UsersById >>, TRUE, Rat(3, 2), Rat(2, 1), Rat(8000, 1)),
      Request(HttpBase, << UsersById >>, TRUE, Rat(8, 10), Rat(13, 1), Rat(8000, 1)),
      Request(HttpBase, << UsersById >>, TRUE, Rat(8, 10), Rat(1, 2), Rat(8000, 1)),
      Request(HttpBase, << UsersById >>, TRUE, Rat(8, 10), Rat(2, 1), Rat(999, 1)),
      Request(NotAUrl, << UsersById >>, TRUE, Rat(8, 10), Rat(0, 1), Rat(70000, 1)) }

\* ------------------------------------------------------- ScanRequestSchema
InRange(x, lo, hi) == RLeq(Rat(lo, 1), x) /\ RLeq(x, Rat(hi, 1))

\* the fields of r that violate ScanRequestSchema (parsed.error.flatten())
schemaIssues(r) ==
    (IF UrlParses(r.baseUrl) THEN { } ELSE { "baseUrl" })
    \cup (IF Len(r.endpoints) >= 1 THEN { } ELSE { "endpoints" })
    \cup (IF \A i \in DOMAIN r.endpoints :
               \A k \in DOMAIN r.endpoints[i].pathParams :
                   Len(r.endpoints[i].pathParams[k].samples) >= 1
          THEN { } ELSE { "endpoints.pathParams.samples" })
    \cup (IF InRange(r.speedGateThreshold, 0, 1) THEN { } ELSE { "speedGateThreshold" })
    \cup (IF InRange(r.maxConcurrency, 1, 12) THEN { } ELSE { "maxConcurrency" })
    \cup (IF InRange(r.timeoutMs, 1000, 60000) THEN { } ELSE { "timeoutMs" })

\* mutant: the schema without its three numeric ranges
safeParseSuccessNoRanges(r) ==
    schemaIssues(r) \cap { "baseUrl", "endpoints", "endpoints.pathParams.samples" } = { }

\* parsed.success
safeParseSuccess(r) == schemaIssues(r) = { }
\* ------------------------------------------------------------------- state
VARIABLES
    req,        \* the parsed JSON body of the request (await req.json())
    pc,         \* where POST is: "parse", "expand", "await", "responded", "threw"
    response,   \* what the caller gets
    ep,         \* the endpoint the expansion loop is at (index into cfg.endpoints)
    tasks,      \* tasks: the endpoint of each task, in push order
    findings,   \* findings
    probe,      \* per endpoint: where its task is, and the task's locals
    inflight,   \* the HTTP calls in flight: [ep, who, stage, timer, status]
    requests,   \* per endpoint and identity: how many fetches were issued
    failed,     \* the calls that failed: << endpoint, identity >>
    gated,      \* the endpoints whose attacker-vector score reached the gate check
    emitted,    \* the findings built so far: << endpoint, attack vector >>
    idx,        \* runWithConcurrency: idx
    out,        \* runWithConcurrency: out (each entry tagged with its job)
    runners,    \* runWithConcurrency: per runner, the job it awaits (0: exited)
    started,    \* per job: how many times it has been called
    jobState    \* per job: "pending", "running", "fulfilled" or "rejected"

vars == << req, pc, response, ep, tasks, findings, probe, inflight, requests,
           failed, gated, emitted, idx, out, runners, started, jobState >>

Identities == { "victim", "attacker", "unauthenticated" }

\* What the target may answer: 200 with the user's record, or 403 with a
\* denial.
TargetStatuses == { 200, 403 }
TargetBody(status) == IF is2xx(status) THEN UserText ELSE DeniedText

\* the locals of a task before it runs (lines 133-134, 149-150, 159-160)
NewProbe ==
    [pc |-> "idle", baselineStatus |-> 0, baselineText |-> EmptyText,
     attackerStatus |-> 0, attackerText |-> EmptyText,
     score |-> Rat(0, 1), evid |-> << >>, unauthStatus |-> 0]

\* Everything a step may change, as one record: the steps below are
\* functions from such a record to the next one.
World ==
    [pc |-> pc, response |-> response, findings |-> findings, probe |-> probe,
     inflight |-> inflight, requests |-> requests, failed |-> failed,
     gated |-> gated, emitted |-> emitted, idx |-> idx, out |-> out,
     runners |-> runners, started |-> started, jobState |-> jobState]

Commit(w) ==
    /\ pc' = w.pc
    /\ response' = w.response
    /\ findings' = w.findings
    /\ probe' = w.probe
    /\ inflight' = w.inflight
    /\ requests' = w.requests
    /\ failed' = w.failed
    /\ gated' = w.gated
    /\ emitted' = w.emitted
    /\ idx' = w.idx
    /\ out' = w.out
    /\ runners' = w.runners
    /\ started' = w.started
    /\ jobState' = w.jobState

\* --------------------------------------------------------------- timedFetch
\* timedFetch(url, init, timeoutMs), line 86-90: arm the timer, start fetch
timedFetch(w, e, who) ==
    [w EXCEPT !.inflight = @ \cup { [ep |-> e, who |-> who, stage |-> "fetch",
                                      timer |-> TRUE, status |-> 0] },
              !.requests[e][who] = @ + 1]

\* lines 91-93: fetch has settled, the finally block clears the timer
clearTimeout(call) == [call EXCEPT !.timer = FALSE]

\* the response is there: the task goes on to read res.text()
readText(w, call, status) ==
    [w EXCEPT !.inflight = (@ \ { call })
                  \cup { [clearTimeout(call) EXCEPT !.stage = "text", !.status = status] }]

\* the call is over (its body read, or the call failed)
endCall(w, call) == [w EXCEPT !.inflight = @ \ { call }]

\* --------------------------------------------------------- runWithConcurrency
\* mutant: one runner per job, whatever max is
poolSizeOfJobs(max, n) == Rat(n, 1)

\* new Array(Math.min(max, jobs.length)): the length asked for
poolSize(max, n) == RMin(max, Rat(n, 1))

\* while (idx < jobs.length)
hasNext(i, n) == i < n

\* const current = idx++ : the new idx
nextIdx(i) == i + 1

\* mutant: no try/catch around the await of the job
runnerCatchNone == "propagate"

\* what a runner does with a job that rejected: catch {} swallows it
runnerCatch == "swallow"

\* jobs[current](): the task runs to its first await, the baseline fetch
\* (a job of endpoint 0 is a job that is no probe task: it just pends)
callJob(w, j) ==
    LET e  == tasks[j]
        w1 == [w EXCEPT !.started[j] = @ + 1, !.jobState[j] = "running"]
    IN  IF e = 0 THEN w1
        ELSE timedFetch([w1 EXCEPT !.probe[e].pc = "baseline"], e, "victim")

\* runner r at the top of its loop (lines 236-239); idx counts from 0, jobs
\* from 1
runnerLoop(w, r) ==
    IF hasNext(w.idx, Len(tasks))
    THEN LET current == w.idx + 1
         IN  callJob([w EXCEPT !.idx = nextIdx(@), !.runners[r] = current], current)
    ELSE [w EXCEPT !.runners[r] = 0]

\* the runners are created one after the other, each running to its first
\* await (line 235)
RECURSIVE startRunners(_, _, _)
startRunners(w, r, k) ==
    IF r > k THEN w ELSE startRunners(runnerLoop(w, r), r + 1, k)

\* the await of line 239 resumes: job j has settled
settle(w, j, how) ==
    LET r  == CHOOSE x \in DOMAIN w.runners : w.runners[x] = j
        w1 == [w EXCEPT !.jobState[j] = how]
    IN  IF how = "fulfilled"
        THEN runnerLoop([w1 EXCEPT !.out = Append(@, j)], r)
        ELSE IF runnerCatch = "swallow"
             THEN runnerLoop(w1, r)
             ELSE \* the runner rejects, Promise.all rejects, POST throws
                  [w1 EXCEPT !.runners[r] = 0,
                             !.pc = IF @ = "await" THEN "threw" ELSE @,
                             !.response = IF w1.pc = "await"
                                          THEN [kind |-> "exception", error |-> "job"]
                                          ELSE @]

\* mutant: Promise.race, the first runner to finish ends the wait
anyRunnerDone(rs) == \E r \in DOMAIN rs : rs[r] = 0

\* Promise.all(runners) has resolved
allRunnersDone(rs) == \A r \in DOMAIN rs : rs[r] = 0
\* ------------------------------------------------------------ the probe task
\* lines 121-128, for endpoint e of cfg.endpoints
primaryParam(e) == req.endpoints[e].pathParams[1]
victimId(e) == primaryParam(e).samples[1]
attackerId(e) ==
    IF Len(primaryParam(e).samples) >= 2 THEN primaryParam(e).samples[2]
    ELSE primaryParam(e).samples[1]
pathVictim(e) ==
    applyTemplate(req.endpoints[e].pathTemplate, primaryParam(e).name, victimId(e), 1)
urlVictim(e) == buildUrl(req.baseUrl, pathVictim(e))

\* the job of endpoint e
TaskOf(e) == CHOOSE j \in DOMAIN tasks : tasks[j] = e

\* the task returns: its promise fulfils, its locals are gone
returnTask(w, e) ==
    settle([w EXCEPT !.probe[e] = [NewProbe EXCEPT !.pc = "returned"]],
           TaskOf(e), "fulfilled")

\* an exception leaves the task: its promise rejects
throwTask(w, e) ==
    settle([w EXCEPT !.probe[e] = [NewProbe EXCEPT !.pc = "threw"]],
           TaskOf(e), "rejected")

\* mutant: the baseline's catch block does not return
baselineCatchGoesOn == "ignore"
\* mutant: no catch block around the attacker's call
attackerCatchNone == "throw"

\* what the three catch blocks do (lines 139-142, 155-157, 227)
baselineCatch == "return"
attackerCatch == "ignore"
unauthCatch == "ignore"

\* mutant: findings.unshift(f)
unshiftFinding(fs, f) == << f >> \o fs

\* findings.push(f)
pushFinding(fs, f) == Append(fs, f)

emit(w, f) ==
    [w EXCEPT !.findings = pushFinding(@, f),
              !.emitted = @ \cup { << f.endpoint, f.attackVector >> }]

\* mutant: the attacker's and the unauthenticated request leave together
attackerStepWithUnauth(w, e) ==
    timedFetch(timedFetch([w EXCEPT !.probe[e].pc = "attacker"], e, "attacker"),
               e, "unauthenticated")

\* lines 144-152: the attacker asks for the victim's resource
attackerStep(w, e) ==
    IF buildUrl(req.baseUrl, pathVictim(e)).throws THEN throwTask(w, e)
    ELSE timedFetch([w EXCEPT !.probe[e].pc = "attacker"], e, "attacker")

\* lines 205-208: the unauthenticated attempt, if asked for; else the task ends
unauthStep(w, e) ==
    IF req.authContexts.unauthenticated
    THEN timedFetch([w EXCEPT !.probe[e].pc = "unauth"], e, "unauthenticated")
    ELSE returnTask(w, e)

\* lines 192-203: the attacker-vector score s meets the gate
gateEmit(w, e, s) ==
    IF gate(s.score, req.speedGateThreshold)
    THEN emit(w, Finding(e, AttackerVector, w.probe[e].baselineStatus,
                         w.probe[e].attackerStatus, s.score, s.evid))
    ELSE w

\* lines 192-208: the gate, then the unauthenticated attempt or the return
gateStep(w, e, s) == unauthStep(gateEmit(w, e, s), e)

\* the locals score and evid of p
scoreOf(p) == [score |-> p.score, evid |-> p.evid]

\* the locals score and evid of p take the values of s
setScore(p, s) == [p EXCEPT !.score = s.score, !.evid = s.evid]

\* lines 159-190, on the locals p of a task
scoreLocals(p, aId) ==
    setScore(p, attackerScore(p.baselineStatus, p.baselineText,
                              p.attackerStatus, p.attackerText, aId))

\* lines 192-208: the locals are scored; the gate, then the next step
gateLocals(w, e) ==
    gateStep([w EXCEPT !.gated = @ \cup { e }], e, scoreOf(w.probe[e]))

\* lines 159-208: score the attacker's answer, gate it, go on
scoreStep(w, e) ==
    gateLocals([w EXCEPT !.probe[e] = scoreLocals(@, attackerId(e))], e)

\* mutant: the unauthenticated finding only next to an attacker finding
unauthGateAfterFinding(w, e, s, ev) ==
    returnTask(IF /\ is2xx(w.probe[e].unauthStatus) /\ gate(s, req.speedGateThreshold)
                  /\ << e, AttackerVector >> \in w.emitted
               THEN emit(w, Finding(e, UnauthVector, w.probe[e].baselineStatus,
                                    w.probe[e].unauthStatus, s, << ev >>))
               ELSE w,
               e)

\* lines 210-226: a 2xx answer to the unauthenticated attempt scores s, with
\* the evidence ev
unauthGate(w, e, s, ev) ==
    returnTask(IF is2xx(w.probe[e].unauthStatus) /\ gate(s, req.speedGateThreshold)
               THEN emit(w, Finding(e, UnauthVector, w.probe[e].baselineStatus,
                                    w.probe[e].unauthStatus, s, << ev >>))
               ELSE w,
               e)

\* lines 209-226: the unauthenticated answer has been read
unauthDone(w, e, textUnauth) ==
    unauthGate(w, e, unauthScore(w.probe[e].baselineText, textUnauth),
               simEvidence("Similarity victim?unauth",
                           similarity(w.probe[e].baselineText.text, textUnauth.text)))

\* fetch has resolved with a response of this status (lines 136-137, 152-153, 208)
onResponse(w, call, status) ==
    LET e == call.ep
        w1 == readText(w, call, status)
    IN  CASE call.who = "victim" -> [w1 EXCEPT !.probe[e].baselineStatus = status]
          [] call.who = "attacker" -> [w1 EXCEPT !.probe[e].attackerStatus = status]
          [] call.who = "unauthenticated" -> [w1 EXCEPT !.probe[e].unauthStatus = status]

\* res.text() has resolved (lines 138, 154, 209)
onText(w, call, body) ==
    LET e == call.ep
        w1 == endCall(w, call)
    IN  CASE call.who = "victim" ->
               attackerStep([w1 EXCEPT !.probe[e].baselineText = body], e)
          [] call.who = "attacker" ->
               scoreStep([w1 EXCEPT !.probe[e].attackerText = body], e)
          [] call.who = "unauthenticated" -> unauthDone(w1, e, body)

\* fetch or res.text() has rejected: the catch block around the call runs
onFail(w, call) ==
    LET e == call.ep
        w1 == [endCall(w, call) EXCEPT !.failed = @ \cup { << e, call.who >> }]
    IN  CASE call.who = "victim" ->
               (CASE baselineCatch = "return" -> returnTask(w1, e)
                  [] baselineCatch = "ignore" -> attackerStep(w1, e)
                  [] OTHER -> throwTask(w1, e))
          [] call.who = "attacker" ->
               (IF attackerCatch = "ignore" THEN scoreStep(w1, e) ELSE throwTask(w1, e))
          [] call.who = "unauthenticated" ->
               (IF unauthCatch = "ignore" THEN returnTask(w1, e) ELSE throwTask(w1, e))

\* ------------------------------------------------------------------- POST
NoResponse == [kind |-> "none"]

InitWith(r, ts) ==
    /\ req = r
    /\ response = NoResponse
    /\ tasks = ts
    /\ findings = << >>
    /\ probe = [e \in 1..Len(r.endpoints) |-> NewProbe]
    /\ inflight = { }
    /\ requests = [e \in 1..Len(r.endpoints) |-> [who \in Identities |-> 0]]
    /\ failed = { }
    /\ gated = { }
    /\ emitted = { }
    /\ idx = 0
    /\ out = << >>
    /\ runners = << >>
    /\ started = << >>
    /\ jobState = << >>

\* a request has arrived and its JSON body has been read
Init ==
    /\ \E r \in ValidRequests \cup InvalidRequests : InitWith(r, << >>)
    /\ pc = "parse"
    /\ ep = 0

\* lines 99-102: the schema rejects the request
ValidateReject ==
    /\ pc = "parse"
    /\ ~safeParseSuccess(req)
    /\ pc' = "responded"
    /\ response' = [kind |-> "error", status |-> 400, issues |-> schemaIssues(req)]
    /\ UNCHANGED << req, ep, tasks, findings, probe, inflight, requests, failed,
                    gated, emitted, idx, out, runners, started, jobState >>

\* lines 99-106: the schema accepts it
ValidateAccept ==
    /\ pc = "parse"
    /\ safeParseSuccess(req)
    /\ pc' = "expand"
    /\ ep' = 1
    /\ UNCHANGED << req, response, tasks, findings, probe, inflight, requests,
                    failed, gated, emitted, idx, out, runners, started, jobState >>

InLoop == pc = "expand" /\ ep <= Len(req.endpoints)

\* mutant: an endpoint without a primary parameter is an error
ExpandSkipThrows ==
    /\ InLoop
    /\ req.endpoints[ep].pathParams = << >>
    /\ pc' = "threw"
    /\ response' = [kind |-> "exception", error |-> "no path parameter"]
    /\ UNCHANGED << req, ep, tasks, findings, probe, inflight, requests, failed,
                    gated, emitted, idx, out, runners, started, jobState >>

\* lines 121-122: no primary parameter, continue
ExpandSkip ==
    /\ InLoop
    /\ req.endpoints[ep].pathParams = << >>
    /\ ep' = ep + 1
    /\ UNCHANGED << req, pc, response, tasks, findings, probe, inflight, requests,
                    failed, gated, emitted, idx, out, runners, started, jobState >>

\* line 128: buildUrl throws, and nothing in POST catches it
ExpandThrow ==
    /\ InLoop
    /\ req.endpoints[ep].pathParams # << >>
    /\ urlVictim(ep).throws
    /\ pc' = "threw"
    /\ response' = [kind |-> "exception", error |-> "TypeError: Invalid URL"]
    /\ UNCHANGED << req, ep, tasks, findings, probe, inflight, requests, failed,
                    gated, emitted, idx, out, runners, started, jobState >>

\* lines 124-229: the endpoint's task is pushed
ExpandPush ==
    /\ InLoop
    /\ req.endpoints[ep].pathParams # << >>
    /\ ~urlVictim(ep).throws
    /\ tasks' = Append(tasks, ep)
    /\ ep' = ep + 1
    /\ UNCHANGED << req, pc, response, findings, probe, inflight, requests, failed,
                    gated, emitted, idx, out, runners, started, jobState >>

LoopDone == pc = "expand" /\ ep > Len(req.endpoints)

\* line 235: new Array(n) throws a RangeError unless n is an integer
ScheduleThrow ==
    /\ LoopDone
    /\ poolSize(req.maxConcurrency, Len(tasks))[2] # 1
    /\ pc' = "threw"
    /\ response' = [kind |-> "exception", error |-> "RangeError: Invalid array length"]
    /\ UNCHANGED << req, ep, tasks, findings, probe, inflight, requests, failed,
                    gated, emitted, idx, out, runners, started, jobState >>

\* lines 233-245 and 249: the runners start, each up to its first await
Schedule ==
    /\ LoopDone
    /\ poolSize(req.maxConcurrency, Len(tasks))[2] = 1
    /\ LET k == poolSize(req.maxConcurrency, Len(tasks))[1]
           w == [World EXCEPT !.pc = "await", !.idx = 0, !.out = << >>,
                              !.runners = [r \in 1..k |-> 0],
                              !.started = [j \in 1..Len(tasks) |-> 0],
                              !.jobState = [j \in 1..Len(tasks) |-> "pending"]]
       IN  Commit(startRunners(w, 1, k))
    /\ UNCHANGED << req, ep, tasks >>

\* line 90: fetch resolves with the response's status line and headers
FetchResolve(call, status) ==
    /\ call \in inflight /\ call.stage = "fetch"
    /\ Commit(onResponse(World, call, status))
    /\ UNCHANGED << req, ep, tasks >>

\* line 90: fetch rejects (a network error)
FetchReject(call) ==
    /\ call \in inflight /\ call.stage = "fetch"
    /\ Commit(onFail(World, call))
    /\ UNCHANGED << req, ep, tasks >>

\* line 88: the timer fires, ctrl.abort() makes the call reject
Timeout(call) ==
    /\ call \in inflight /\ call.timer
    /\ Commit(onFail(World, call))
    /\ UNCHANGED << req, ep, tasks >>

\* lines 138, 154, 209: the body has been read
TextResolve(call) ==
    /\ call \in inflight /\ call.stage = "text"
    /\ Commit(onText(World, call, TargetBody(call.status)))
    /\ UNCHANGED << req, ep, tasks >>

\* lines 138, 154, 209: reading the body fails (the connection breaks)
TextReject(call) ==
    /\ call \in inflight /\ call.stage = "text"
    /\ Commit(onFail(World, call))
    /\ UNCHANGED << req, ep, tasks >>

\* lines 245-251: Promise.all resolves, POST answers with the findings
Respond ==
    /\ pc = "await"
    /\ allRunnersDone(runners)
    /\ pc' = "responded"
    /\ response' = [kind |-> "findings", status |-> 200, findings |-> findings]
    /\ UNCHANGED << req, ep, tasks, findings, probe, inflight, requests, failed,
                    gated, emitted, idx, out, runners, started, jobState >>

Next ==
    \/ ValidateReject
    \/ ValidateAccept
    \/ ExpandSkip
    \/ ExpandThrow
    \/ ExpandPush
    \/ ScheduleThrow
    \/ Schedule
    \/ \E call \in inflight, status \in TargetStatuses : FetchResolve(call, status)
    \/ \E call \in inflight : FetchReject(call)
    \/ \E call \in inflight : Timeout(call)
    \/ \E call \in inflight : TextResolve(call)
    \/ \E call \in inflight : TextReject(call)
    \/ Respond

Spec == Init /\ [][Next]_vars
\* ------------------------------------------- runWithConcurrency on its own
\* runWithConcurrency(jobs, max) for any jobs: n jobs that are no probe tasks
\* (endpoint 0), each of which fulfils or rejects when it pleases, and an
\* integral max.
SchedInit ==
    /\ \E n \in 0..MaxJobs, k \in 1..MaxWorkers :
           InitWith(Request(HttpBase, << Health >>, FALSE, Rat(8, 10), Rat(k, 1),
                            Rat(8000, 1)),
                    [j \in 1..n |-> 0])
    /\ pc = "expand"
    /\ ep = 2

\* the promise of job j fulfils
JobFulfil(j) ==
    /\ j \in DOMAIN jobState /\ jobState[j] = "running" /\ tasks[j] = 0
    /\ Commit(settle(World, j, "fulfilled"))
    /\ UNCHANGED << req, ep, tasks >>

\* the promise of job j rejects
JobReject(j) ==
    /\ j \in DOMAIN jobState /\ jobState[j] = "running" /\ tasks[j] = 0
    /\ Commit(settle(World, j, "rejected"))
    /\ UNCHANGED << req, ep, tasks >>

SchedNext ==
    \/ Schedule
    \/ \E j \in 1..Len(tasks) : JobFulfil(j)
    \/ \E j \in 1..Len(tasks) : JobReject(j)
    \/ Respond

SchedSpec == SchedInit /\ [][SchedNext]_vars
\* ------------------------------------------------- the scoring on its own
\* Lines 159-208 statement by statement, for the one task of a scan of
\* /users/{id}, from any locals the baseline and the attacker step can leave.
\* {"id":1002}
OtherText == LET t == << "{", "\"", "i", "d", "\"", ":", "1", "0", "0", "2", "}" >>
             IN  Body(t, TRUE, t)
\* {}
BracesText == Body(<< "{", "}" >>, TRUE, << "{", "}" >>)

ScoreBodies == { EmptyText, UserText, OtherText, DeniedText, BracesText }
BaselineStatuses == { 200, 403, 500 }
\* status 0: the attacker's fetch failed
AttackerStatuses == { 0, 200, 401, 403, 500 }
ScoreThresholds == { Rat(1, 5), Rat(1, 2), Rat(8, 10) }

\* the task stands at line 159; attackerFailed: the catch block of line 155 ran
ScoreLocals(bs, bt, as, at) ==
    [NewProbe EXCEPT !.pc = "score", !.baselineStatus = bs, !.baselineText = bt,
                     !.attackerStatus = as, !.attackerText = at]

ScoreInit ==
    /\ \E th \in ScoreThresholds, u \in BOOLEAN :
           req = Request(HttpBase, << UsersById >>, u, th, Rat(1, 1), Rat(8000, 1))
    /\ \E bs \in BaselineStatuses, bt \in ScoreBodies, as \in AttackerStatuses,
          at \in ScoreBodies, attackerFailed \in BOOLEAN :
           /\ as = 0 => attackerFailed
           /\ attackerFailed => at = EmptyText
           /\ probe = << ScoreLocals(bs, bt, as, at) >>
           /\ failed = IF attackerFailed THEN { << 1, "attacker" >> } ELSE { }
    /\ pc = "await"
    /\ ep = 2
    /\ response = NoResponse
    /\ tasks = << 1 >>
    /\ findings = << >>
    /\ inflight = { }
    /\ requests = << [who \in Identities |-> IF who = "unauthenticated" THEN 0 ELSE 1] >>
    /\ gated = { }
    /\ emitted = { }
    /\ idx = 1
    /\ out = << >>
    /\ runners = << 1 >>
    /\ started = << 1 >>
    /\ jobState = << "running" >>

\* the task of endpoint e stands at the statement at
At(e, at) == e \in DOMAIN probe /\ probe[e].pc = at

\* lines 162-171: the base score, when the baseline is 2xx
ScoreBase(e) ==
    /\ At(e, "score")
    /\ probe' = [probe EXCEPT ![e] =
                    IF is2xx(@.baselineStatus)
                    THEN setScore([@ EXCEPT !.pc = "ids"],
                                  baseScore(@.attackerStatus,
                                            similarity(@.baselineText.text,
                                                       @.attackerText.text)))
                    ELSE [@ EXCEPT !.pc = "clamp"]]
    /\ UNCHANGED << req, pc, response, ep, tasks, findings, inflight, requests,
                    failed, gated, emitted, idx, out, runners, started, jobState >>

\* lines 174-182: both bodies parse, or the catch of line 187; then the
\* attacker's own id
ScoreOwnId(e) ==
    /\ At(e, "ids")
    /\ probe' = [probe EXCEPT ![e] =
                    IF @.baselineText.parses /\ @.attackerText.parses
                    THEN setScore([@ EXCEPT !.pc = "leak"],
                                  ownId(scoreOf(@), idMatch(@.baselineText.json),
                                        idMatch(@.attackerText.json), attackerId(e)))
                    ELSE [@ EXCEPT !.pc = "clamp"]]
    /\ UNCHANGED << req, pc, response, ep, tasks, findings, inflight, requests,
                    failed, gated, emitted, idx, out, runners, started, jobState >>

\* lines 183-186: the victim's id in the attacker's response
ScoreLeakedId(e) ==
    /\ At(e, "leak")
    /\ probe' = [probe EXCEPT ![e] =
                    setScore([@ EXCEPT !.pc = "clamp"],
                             leakedId(scoreOf(@), idMatch(@.baselineText.json),
                                      @.attackerText.json))]
    /\ UNCHANGED << req, pc, response, ep, tasks, findings, inflight, requests,
                    failed, gated, emitted, idx, out, runners, started, jobState >>

\* line 190
ScoreClamp(e) ==
    /\ At(e, "clamp")
    /\ probe' = [probe EXCEPT ![e] = setScore([@ EXCEPT !.pc = "gate"], clamp(scoreOf(@)))]
    /\ UNCHANGED << req, pc, response, ep, tasks, findings, inflight, requests,
                    failed, gated, emitted, idx, out, runners, started, jobState >>

\* lines 192-203
ScoreGate(e) ==
    /\ At(e, "gate")
    /\ Commit(gateEmit([World EXCEPT !.gated = @ \cup { e }, !.probe[e].pc = "next"],
                       e, scoreOf(probe[e])))
    /\ UNCHANGED << req, ep, tasks >>

\* lines 205-208, or the end of the task
ScoreUnauth(e) ==
    /\ At(e, "next")
    /\ Commit(unauthStep(World, e))
    /\ UNCHANGED << req, ep, tasks >>

ScoreNext ==
    \/ \E e \in DOMAIN probe : ScoreBase(e)
    \/ \E e \in DOMAIN probe : ScoreOwnId(e)
    \/ \E e \in DOMAIN probe : ScoreLeakedId(e)
    \/ \E e \in DOMAIN probe : ScoreClamp(e)
    \/ \E e \in DOMAIN probe : ScoreGate(e)
    \/ \E e \in DOMAIN probe : ScoreUnauth(e)
    \/ \E call \in inflight, status \in TargetStatuses : FetchResolve(call, status)
    \/ \E call \in inflight : FetchReject(call)
    \/ \E call \in inflight : Timeout(call)
    \/ \E call \in inflight : TextResolve(call)
    \/ \E call \in inflight : TextReject(call)
    \/ Respond

ScoreSpec == ScoreInit /\ [][ScoreNext]_vars

\* ================================================================== claims
Endpoints == DOMAIN probe
Jobs == DOMAIN jobState

\* no fetch has ever been issued
NoRequests == \A e \in Endpoints : \A who \in Identities : requests[e][who] = 0
\* the calls of endpoint e in flight
CallsOf(e) == { c \in inflight : c.ep = e }
FindingsOf(e) == { i \in DOMAIN findings : findings[i].endpoint = e }
\* the jobs that are running
Running == { j \in Jobs : jobState[j] = "running" }
\* where job j stands in out (its rank among the completed jobs)
OutPos(j) == CHOOSE i \in DOMAIN out : out[i] = j
Settled(j) == jobState[j] \in { "fulfilled", "rejected" }
\* an endpoint with a primary parameter whose request URL cannot be built
Malformed(e) ==
    /\ req.endpoints[e].pathParams # << >>
    /\ ~UrlParses(joinUrl(req.baseUrl, pathVictim(e)))

\* C1: a request that violates the schema gets the structured validation
\* error (status 400, the violated fields) and nothing else happens: no
\* task is built, no fetch is issued, no finding is emitted.
C1_InvalidHasNoSideEffects ==
    schemaIssues(req) # { } =>
        /\ NoRequests
        /\ inflight = { }
        /\ tasks = << >>
        /\ findings = << >> /\ emitted = { }
        /\ pc \in { "parse", "responded" }
        /\ pc = "parse" => response = NoResponse
        /\ pc = "responded" =>
               response = [kind |-> "error", status |-> 400, issues |-> schemaIssues(req)]

\* a rejected request with two violated fields has been answered
C1_Witness ==
    /\ pc = "responded"
    /\ response.kind = "error"
    /\ Cardinality(schemaIssues(req)) >= 2
    /\ NoRequests

\* C2: once a call of a probe has failed (network error, timeout), no task
\* rejects and POST never answers with an exception: when no call is left in
\* flight every job has fulfilled, and the answer of the scan is the
\* findings list.
C2_TransportFailuresStayLocal ==
    failed # { } =>
        /\ response.kind \in { "none", "findings" }
        /\ pc \in { "await", "responded" }
        /\ \A j \in Jobs : jobState[j] # "rejected"
        /\ \A e \in Endpoints : probe[e].pc # "threw"
        /\ inflight = { } =>
               /\ \A j \in Jobs : jobState[j] = "fulfilled"
               /\ allRunnersDone(runners)
        /\ pc = "responded" => response.kind = "findings" /\ response.status = 200

\* the scan has answered with findings although a baseline call, an attacker
\* call and an unauthenticated call have failed
C2_Witness ==
    /\ pc = "responded"
    /\ response.kind = "findings"
    /\ \A who \in Identities : \E e \in Endpoints : << e, who >> \in failed

\* C3: an endpoint whose baseline call failed issues no attacker and no
\* unauthenticated request and has no finding; its task returns normally,
\* and the scan answers with the findings after probing every other task.
C3_DeadBaselineSkipsEndpoint ==
    \A e \in Endpoints :
        << e, "victim" >> \in failed =>
            /\ requests[e]["victim"] = 1
            /\ requests[e]["attacker"] = 0
            /\ requests[e]["unauthenticated"] = 0
            /\ FindingsOf(e) = { }
            /\ CallsOf(e) = { }
            /\ probe[e].pc = "returned"
            /\ jobState[TaskOf(e)] = "fulfilled"
            /\ response.kind \in { "none", "findings" }
            /\ pc = "responded" =>
                   /\ response.kind = "findings"
                   /\ \A j \in Jobs : requests[tasks[j]]["victim"] = 1

\* the scan has answered; one endpoint's baseline failed, another endpoint
\* was probed in full and has a finding
C3_Witness ==
    /\ pc = "responded"
    /\ \E e \in Endpoints : << e, "victim" >> \in failed
    /\ \E e \in Endpoints : requests[e]["attacker"] = 1 /\ FindingsOf(e) # { }

\* C4: the jobs started and not finished, and the HTTP calls in flight, are
\* never more than min(maxConcurrency, number of jobs).
C4_BoundedConcurrency ==
    /\ RLeq(Rat(Cardinality(Running), 1), req.maxConcurrency)
    /\ Cardinality(Running) <= Len(tasks)
    /\ RLeq(Rat(Cardinality(inflight), 1), req.maxConcurrency)
    /\ Cardinality(inflight) <= Len(tasks)
    /\ Cardinality({ r \in DOMAIN runners : runners[r] # 0 }) <= Cardinality(Running)

\* maxConcurrency jobs run while another job waits for a free runner
C4_Witness ==
    /\ Rat(Cardinality(Running), 1) = req.maxConcurrency
    /\ Cardinality(inflight) = Cardinality(Running)
    /\ \E j \in Jobs : jobState[j] = "pending"

\* C5: runWithConcurrency calls no job twice; a job that rejects does not
\* stop it (it never throws, and while a job waits a runner is at work);
\* when it returns every job has been called once and has settled, and out
\* holds one entry per job that fulfilled and none for a job that rejected.
C5_EachJobOnce ==
    /\ \A j \in Jobs : started[j] <= 1
    /\ \A j \in Jobs : (started[j] = 0) = (jobState[j] = "pending")
    /\ response.kind # "exception"
    /\ pc = "await" =>
           /\ \A r \in DOMAIN runners : runners[r] # 0 => jobState[runners[r]] = "running"
           /\ (\E j \in Jobs : jobState[j] = "pending") =>
                  \E r \in DOMAIN runners : runners[r] # 0
    /\ pc = "responded" =>
           /\ Jobs = 1..Len(tasks)
           /\ \A j \in Jobs : started[j] = 1 /\ Settled(j)
           /\ \A j \in Jobs :
                  Cardinality({ i \in DOMAIN out : out[i] = j })
                      = (IF jobState[j] = "fulfilled" THEN 1 ELSE 0)

\* runWithConcurrency has returned with more jobs than runners, after a job
\* rejected and a job called later than it fulfilled
C5_Witness ==
    /\ pc = "responded"
    /\ Len(tasks) > Len(runners) /\ Len(runners) >= 2
    /\ \E j, k \in Jobs : j < k /\ jobState[j] = "rejected" /\ jobState[k] = "fulfilled"

\* C6 as claimed: of two endpoints, the findings of the one whose job
\* completed first all come before the findings of the other.
C6_FindingsInCompletionOrder ==
    pc = "responded" =>
        \A i, k \in DOMAIN findings :
            (/\ findings[i].endpoint # findings[k].endpoint
             /\ OutPos(TaskOf(findings[i].endpoint)) < OutPos(TaskOf(findings[k].endpoint)))
                => i < k

\* C6 amended: findings are in the order they were pushed. If A's job
\* completed before B's, every finding of A comes before B's
\* unauthenticated-vector finding and, when no unauthenticated probe is
\* configured, before B's attacker-vector finding too; and an endpoint's
\* attacker-vector finding comes before its unauthenticated-vector finding.
C6_FindingsInPushOrder ==
    pc = "responded" =>
        \A i, k \in DOMAIN findings :
            /\ (/\ findings[i].endpoint # findings[k].endpoint
                /\ OutPos(TaskOf(findings[i].endpoint)) < OutPos(TaskOf(findings[k].endpoint))
                /\ \/ findings[k].attackVector = UnauthVector
                   \/ ~req.authContexts.unauthenticated)
                   => i < k
            /\ (/\ findings[i].endpoint = findings[k].endpoint
                /\ findings[i].attackVector = AttackerVector
                /\ findings[k].attackVector = UnauthVector)
                   => i < k

\* the answer holds an attacker-vector finding of B ahead of the findings of
\* A, whose job completed first, and B's unauthenticated-vector finding last
C6_Witness ==
    /\ pc = "responded"
    /\ Len(findings) = 4
    /\ findings[1].endpoint = findings[4].endpoint
    /\ findings[2].endpoint = findings[3].endpoint
    /\ findings[1].endpoint # findings[2].endpoint
    /\ findings[4].attackVector = UnauthVector
    /\ OutPos(TaskOf(findings[2].endpoint)) < OutPos(TaskOf(findings[1].endpoint))

\* C7: the findings answer is built only when every job has settled and no
\* call is in flight, it holds exactly the findings emitted, and the
\* findings never change after it.
C7_AnswerIsComplete ==
    response.kind = "findings" =>
        /\ pc = "responded"
        /\ inflight = { }
        /\ \A j \in Jobs : Settled(j)
        /\ \A j \in 1..Len(tasks) : j \in Jobs /\ started[j] >= 1
        /\ \A e \in Endpoints : probe[e].pc \in { "idle", "returned", "threw" }
        /\ response.findings = findings
        /\ { << findings[i].endpoint, findings[i].attackVector >> : i \in DOMAIN findings }
               = emitted
        /\ Len(findings) = Cardinality(emitted)

\* an answer with the findings of two endpoints
C7_Witness ==
    /\ response.kind = "findings"
    /\ Len(response.findings) >= 3
    /\ \E i, k \in DOMAIN findings : findings[i].endpoint # findings[k].endpoint

\* C8: an endpoint has at most one call in flight; its attacker request is
\* issued only after its baseline call succeeded; its unauthenticated request
\* only after its attacker call ended (answered or failed) and the attacker
\* score went through the gate.
C8_StepsAreSequential ==
    \A e \in Endpoints :
        /\ Cardinality(CallsOf(e)) <= 1
        /\ \A who \in Identities : requests[e][who] <= 1
        /\ requests[e]["attacker"] > 0 =>
               /\ requests[e]["victim"] = 1
               /\ << e, "victim" >> \notin failed
               /\ \A c \in CallsOf(e) : c.who # "victim"
        /\ requests[e]["unauthenticated"] > 0 =>
               /\ requests[e]["attacker"] = 1
               /\ e \in gated
               /\ \A c \in CallsOf(e) : c.who = "unauthenticated"
        /\ e \in gated => \A c \in CallsOf(e) : c.who = "unauthenticated"

\* an unauthenticated call is in flight for an endpoint whose attacker call
\* failed, while another endpoint still awaits its attacker's answer
C8_Witness ==
    \E c, d \in inflight :
        /\ c.who = "unauthenticated"
        /\ << c.ep, "attacker" >> \in failed
        /\ d.who = "attacker" /\ d.ep # c.ep

\* C9 as claimed: every call in flight, from its dispatch until its body has
\* been read, has its timeout armed, so the timer ends the call if the
\* target does not.
C9_TimeoutCoversWholeCall == \A c \in inflight : c.timer

\* C10 as claimed: when the request URL of an endpoint cannot be built the
\* scan does not fail: POST answers with the findings, after probing every
\* other endpoint that has a primary parameter.
C10_MalformedTargetIsScoped ==
    (schemaIssues(req) = { } /\ \E e \in Endpoints : Malformed(e)) =>
        /\ response.kind \in { "none", "findings" }
        /\ pc # "threw"
        /\ pc = "responded" =>
               \A e \in Endpoints :
                   (req.endpoints[e].pathParams # << >> /\ ~Malformed(e))
                       => requests[e]["victim"] = 1

\* the task of endpoint e has its attacker-vector score: lines 159-190 are done
Scored(e) == probe[e].pc \in { "gate", "next", "unauth" }
\* the attacker's call of endpoint e failed
AttackerFailed(e) == << e, "attacker" >> \in failed
\* no id can be extracted from the body b
NoId(b) == ~b.parses \/ idMatch(b.json) = << >>

\* C11 as claimed: with a 2xx baseline and an attacker status of 403 the
\* attacker-vector score is 0.05, whatever the two bodies are.
C11_RejectedScoresFiveHundredths ==
    \A e \in Endpoints :
        (Scored(e) /\ is2xx(probe[e].baselineStatus) /\ probe[e].attackerStatus = 403)
            => probe[e].score = Rat(5, 100)

\* C12: with threshold 0.8 and no unauthenticated probe, a task whose
\* attacker was answered 401 or 403 has no finding once the gate is passed,
\* and no finding ever records an attacker status of 401 or 403.
C12_RejectedAttackerNoFinding ==
    (req.speedGateThreshold = Rat(8, 10) /\ ~req.authContexts.unauthenticated) =>
        /\ \A e \in Endpoints :
               (probe[e].pc = "next" /\ probe[e].attackerStatus \in { 401, 403 })
                   => FindingsOf(e) = { }
        /\ \A i \in DOMAIN findings : findings[i].statusAttacker \notin { 401, 403 }
        /\ pc = "responded" => response.findings = findings

\* the gate has been passed without a finding by the highest score a 403 can
\* get: the victim's id shows in the attacker's 403 body
C12_Witness ==
    /\ req.speedGateThreshold = Rat(8, 10) /\ ~req.authContexts.unauthenticated
    /\ \E e \in Endpoints :
           /\ probe[e].pc = "next"
           /\ e \in gated
           /\ probe[e].baselineStatus = 200 /\ probe[e].attackerStatus = 403
           /\ probe[e].score = Rat(2, 10)
           /\ FindingsOf(e) = { }

\* C13 as claimed: baseline 200 and attacker 200 with the same body, from
\* which no id can be extracted, score exactly 1.
C13_IdenticalBodiesScoreOne ==
    \A e \in Endpoints :
        (/\ Scored(e) /\ ~AttackerFailed(e)
         /\ probe[e].baselineStatus = 200 /\ probe[e].attackerStatus = 200
         /\ probe[e].baselineText = probe[e].attackerText
         /\ NoId(probe[e].baselineText))
            => probe[e].score = Rat(1, 1)

\* C14 as claimed: when both bodies parse, line 179-182 takes 0.1 from the
\* score exactly when the id of the attacker's body is the attacker's sample.
C14_OwnIdIsTheAttackersId ==
    [][\A e \in DOMAIN probe :
           (probe[e].pc = "ids" /\ probe'[e].pc = "leak") =>
               probe'[e].score =
                   IF idMatch(probe[e].attackerText.json) = attackerId(e)
                   THEN RSub(probe[e].score, Rat(1, 10))
                   ELSE probe[e].score]_vars

\* C15 as claimed: similarity(a, a) is 1 for every a: after line 168, when
\* the two bodies are the same text, the evidence reads 100.0% and the base
\* score is 0.6 + 0.4.
C15_SimilarityOfSelfIsOne ==
    \A e \in Endpoints :
        (/\ probe[e].pc = "ids" /\ is2xx(probe[e].attackerStatus)
         /\ probe[e].baselineText.text = probe[e].attackerText.text)
            => /\ probe[e].evid = << << "Similarity victim?attacker", 1000 >> >>
               /\ probe[e].score = Rat(1, 1)

\* the scan of C16: /users/{id} alone, threshold 0.8, no unauthenticated probe
OneUserScan ==
    /\ req.endpoints = << UsersById >>
    /\ req.speedGateThreshold = Rat(8, 10)
    /\ ~req.authContexts.unauthenticated
\* the one finding of C16
IdorFinding(f) ==
    /\ f.attackVector = AttackerVector
    /\ f.statusVictim = 200 /\ f.statusAttacker = 200
    /\ f.confidence >= 800

\* C16: in the scan of /users/{id} alone (samples 1001 and 1002, threshold
\* 0.8, no unauthenticated probe), when the target has answered the victim
\* 200 with the record of 1001 and the attacker's read of the same answer
\* ends, the task ends with exactly one finding: attacker vector, 200 and
\* 200, confidence at least 0.8; and that is the list the scan answers with.
C16_VulnerableTargetOneFinding ==
    [][OneUserScan =>
          /\ \A c \in inflight :
                 (/\ c.who = "attacker" /\ c.stage = "text" /\ c.status = 200
                  /\ probe[c.ep].baselineStatus = 200
                  /\ probe[c.ep].baselineText = TargetBody(200)
                  /\ c \notin inflight' /\ << c.ep, "attacker" >> \notin failed')
                     => /\ Len(findings') = 1
                        /\ IdorFinding(findings'[1])
                        /\ jobState'[TaskOf(c.ep)] = "fulfilled"
                        /\ allRunnersDone(runners')
          /\ (pc = "await" /\ pc' = "responded")
                 => response' = [kind |-> "findings", status |-> 200,
                                 findings |-> findings]]_vars

\* that scan has answered with the one finding, no call having failed
C16_Witness ==
    /\ OneUserScan
    /\ pc = "responded" /\ failed = { }
    /\ Len(response.findings) = 1
    /\ IdorFinding(response.findings[1])
    /\ response.findings[1].confidence = 1000

\* C17: an endpoint never has more than one finding per attack vector (two
\* in all); and when the read of the unauthenticated answer ends, the
\* unauthenticated-vector finding is emitted exactly when that answer is 2xx
\* and its score against the baseline body reaches the threshold, whatever
\* the attacker's call and score were.
C17_TwoFindingsGatedApart ==
    /\ [](\A e \in Endpoints :
              /\ Cardinality(FindingsOf(e)) <= 2
              /\ \A i, k \in FindingsOf(e) :
                     findings[i].attackVector = findings[k].attackVector => i = k
              /\ \A i \in FindingsOf(e) :
                     findings[i].attackVector \in { AttackerVector, UnauthVector })
    /\ [][\A c \in inflight :
              (/\ c.who = "unauthenticated" /\ c.stage = "text"
               /\ c \notin inflight' /\ << c.ep, "unauthenticated" >> \notin failed')
                  => ((<< c.ep, UnauthVector >> \in emitted')
                         <=> (/\ is2xx(c.status)
                              /\ gate(unauthScore(probe[c.ep].baselineText,
                                                  TargetBody(c.status)),
                                      req.speedGateThreshold)))]_vars

\* an endpoint whose attacker call failed has the unauthenticated-vector
\* finding alone, and another endpoint has both findings
C17_Witness ==
    /\ \E e \in Endpoints :
           /\ AttackerFailed(e)
           /\ { findings[i].attackVector : i \in FindingsOf(e) } = { UnauthVector }
    /\ \E e \in Endpoints : Cardinality(FindingsOf(e)) = 2

\* the endpoints with a path parameter, in the order of the request
RECURSIVE WithParams(_)
WithParams(i) ==
    IF i > Len(req.endpoints) THEN << >>
    ELSE (IF req.endpoints[i].pathParams = << >> THEN << >> ELSE << i >>)
             \o WithParams(i + 1)

\* C18: an endpoint without a path parameter has no task, no request, no
\* call and no finding; the tasks are the other endpoints in their order,
\* each of which is probed before the scan answers; and POST throws only
\* for a URL that cannot be built or a fractional pool size, never for the
\* skipped endpoint.
C18_NoParameterIsSkipped ==
    /\ \A e \in Endpoints :
           req.endpoints[e].pathParams = << >> =>
               /\ \A who \in Identities : requests[e][who] = 0
               /\ CallsOf(e) = { }
               /\ FindingsOf(e) = { }
               /\ probe[e].pc = "idle"
               /\ \A j \in DOMAIN tasks : tasks[j] # e
    /\ (schemaIssues(req) = { } /\ pc \in { "await", "responded" }) =>
           tasks = WithParams(1)
    /\ (pc = "responded" /\ response.kind = "findings") =>
           \A j \in DOMAIN tasks : requests[tasks[j]]["victim"] = 1
    /\ response.kind = "exception" =>
           \/ \E e \in Endpoints : Malformed(e)
           \/ poolSize(req.maxConcurrency, Len(WithParams(1)))[2] # 1

\* the scan has answered: its first endpoint was skipped, its second probed
\* and found vulnerable
C18_Witness ==
    /\ pc = "responded" /\ response.kind = "findings"
    /\ Len(req.endpoints) = 2
    /\ req.endpoints[1].pathParams = << >>
    /\ tasks = << 2 >>
    /\ FindingsOf(2) # { }

\* C19 as claimed: after the attacker's call failed, the task goes on with
\* attacker status 0, an empty attacker text and a score of 0.
C19_FailedAttackerLeavesNothing ==
    \A e \in Endpoints :
        (AttackerFailed(e) /\ probe[e].pc = "unauth") =>
            /\ probe[e].attackerStatus = 0
            /\ probe[e].attackerText = EmptyText
            /\ probe[e].score = Rat(0, 1)

\* C20 as claimed: every finding records a 2xx victim status (every
\* threshold of ScoreThresholds is greater than 0).
C20_FindingsHaveGoodBaseline ==
    RLeq(req.speedGateThreshold, Rat(0, 1))
        \/ \A i \in DOMAIN findings : is2xx(findings[i].statusVictim)

\* C21: with a threshold above 0.2, every attacker-vector finding records a
\* 2xx attacker status, and a task whose attacker status is not 2xx (0 for a
\* fetch that failed) has no attacker-vector finding once the gate is passed.
C21_FindingsHaveAnsweredAttacker ==
    ~RLeq(req.speedGateThreshold, Rat(2, 10)) =>
        /\ \A i \in DOMAIN findings :
               findings[i].attackVector = AttackerVector
                   => is2xx(findings[i].statusAttacker)
        /\ \A e \in Endpoints :
               (probe[e].pc \in { "next", "unauth" } /\ ~is2xx(probe[e].attackerStatus))
                   => << e, AttackerVector >> \notin emitted

\* at threshold 0.5 the gate has been passed without a finding by a 403 with
\* the highest score it can get, 0.2, and by a failed fetch (status 0)
C21_Witness ==
    /\ req.speedGateThreshold = Rat(1, 2)
    /\ \E e \in Endpoints :
           /\ probe[e].pc = "next" /\ e \in gated
           /\ \/ probe[e].attackerStatus = 403 /\ probe[e].score = Rat(2, 10)
              \/ probe[e].attackerStatus = 0 /\ AttackerFailed(e)
           /\ FindingsOf(e) = { }
====
